---- MODULE Spec2Model ----
(***************************************************************************)
(* State-machine model of itunes_app_scraper.scraper.AppStoreScraper.      *)
(*                                                                         *)
(* One behaviour is one invocation of a public method against an error     *)
(* log that is either empty or already holds an earlier entry.  The        *)
(* methods that loop, retry or call each other (get_app_details,           *)
(* get_multiple_app_details, get_app_ratings) are modelled step by step;   *)
(* the methods that issue a single request are one action each.  The       *)
(* App Store (the transport and what it answers) is the environment: every *)
(* request nondeterministically fails or returns one of the response       *)
(* shapes the code distinguishes.                                          *)
(*                                                                         *)
(* Strings that the code parses or formats are sequences of one-character  *)
(* strings, so int() and "%s" are computed, not assumed.  Fixed message    *)
(* prefixes are one element each.                                          *)
(*                                                                         *)
(* Lines 48-51 of scraper.py are indented with spaces where the rest of    *)
(* the file uses tabs; they are read as part of the body of                *)
(* get_app_ids_for_query, where they stand.                                *)
(***************************************************************************)
EXTENDS Integers, Sequences, FiniteSets, TLC

VARIABLES
    top,    \* the invocation: [op, args, out, ret] (method, arguments, outcome,
            \* returned list)
    net,    \* number of network requests issued by the invocation so far
    log,    \* the error log: country string -> sequence of logged messages
    det,    \* frame of get_app_details
    rat,    \* frame of get_app_ratings
    bat,    \* generator object of get_multiple_app_details
    req,    \* events of the current try / back-off / retry block
    store   \* the customer-reviews page of each country, once it has been served

vars == <<top, net, log, det, rat, bat, req, store>>

----------------------------------------------------------------------------
(* Bounds of the model *)

\* longest list of app ids handed to get_multiple_app_details
MaxBatch == 2
\* longest list of countries handed to get_app_ratings
MaxCountries == 2
\* largest num / page argument of get_app_ids_for_query
MaxNum == 2
\* most entries in a lookup or search response
MaxResults == 2

(* Program constants *)

\* time.sleep(2): the back-off before the retry
BackoffSecs == 2
\* len(matches) != 5 in _parse_rating
StarCount == 5

----------------------------------------------------------------------------
(* Strings, int() and "%s" *)

DigitChars == <<"0", "1", "2", "3", "4", "5", "6", "7", "8", "9">>

IsDigit(c) == \E i \in 1..10 : DigitChars[i] = c

DigitVal(c) == (CHOOSE i \in 1..10 : DigitChars[i] = c) - 1

\* int(s) succeeds: a non-empty run of decimal digits (leading zeros
\* allowed).  The strings of the model hold no sign, blank or underscore.
IsInt(s) == Len(s) > 0 /\ \A i \in 1..Len(s) : IsDigit(s[i])

RECURSIVE IntOf(_)
\* int(s) for a string of digits
IntOf(s) ==
    IF Len(s) = 0 THEN 0
    ELSE 10 * IntOf(SubSeq(s, 1, Len(s) - 1)) + DigitVal(s[Len(s)])

RECURSIVE StrOfInt(_)
\* "%s" % n for a non-negative int: the canonical decimal form
StrOfInt(n) ==
    IF n < 10 THEN <<DigitChars[n + 1]>>
    ELSE StrOfInt(n \div 10) \o <<DigitChars[(n % 10) + 1]>>

\* needle occurs in hay as a contiguous run (Python's `in` / re.search of a literal)
Contains(hay, needle) ==
    \E i \in 1..(Len(hay) + 1) :
        /\ i + Len(needle) - 1 <= Len(hay)
        /\ SubSeq(hay, i, i + Len(needle) - 1) = needle

----------------------------------------------------------------------------
(* Inputs *)

\* app identifiers a caller passes: canonical number, number with a leading
\* zero, bundle id
AppIds == { <<"7">>, <<"0", "7">>, <<"a">> }

\* country strings a caller passes
Codes == { "nl", "GB", "xz" }

\* str.upper()
Upper(c) == CASE c = "nl" -> "NL" [] c = "GB" -> "GB" [] c = "xz" -> "XZ"

\* attributes of AppStoreMarkets (util.py): the storefront table
Markets == { "NL", "GB" }

StoreId(cc) == CASE cc = "NL" -> 143452 [] cc = "GB" -> 143444

\* COUNTRIES (util.py): the default country list of get_app_ratings
COUNTRIES == << "nl", "GB" >>

NoSleep == -1
Sleeps == { NoSleep, 1 }

\* bounded sequences over S
SeqsUpTo(S, n) == UNION { [1..k -> S] : k \in 0..n }

----------------------------------------------------------------------------
(* Exceptions and outcomes *)

Pending == [k |-> "pending", type |-> "", msg |-> <<>>]
Return == [k |-> "return", type |-> "", msg |-> <<>>]
Raise(type, msg) == [k |-> "raise", type |-> type, msg |-> msg]

AppStoreException(msg) == Raise("AppStoreException", msg)

----------------------------------------------------------------------------
(* get_store_id_for_country *)

\* a lookup that falls back to the default store for an unknown code
GetStoreIdOrDefault(country) ==
    [ok |-> TRUE,
     id |-> IF Upper(country) \in Markets THEN StoreId(Upper(country)) ELSE StoreId("NL"),
     exc |-> Pending]

\* lines 296-301: hasattr(AppStoreMarkets, country.upper())
GetStoreIdForCountry(country) ==
    IF Upper(country) \in Markets
    THEN [ok |-> TRUE, id |-> StoreId(Upper(country)), exc |-> Pending]
    ELSE [ok |-> FALSE, id |-> 0,
          exc |-> AppStoreException(<<"Country code not found for ", Upper(country)>>)]

(* _log_error: append one line to the file named after the country string.
   The time stamp written before the message is left out. *)
LogError(l, app_store_country, message) ==
    [l EXCEPT ![app_store_country] = Append(@, message)]

----------------------------------------------------------------------------
(* _parse_rating *)

\* the histogram get_app_ratings starts from
ZeroDataset == [s \in 1..StarCount |-> 0]

\* What the customer-reviews page can hold: the texts between the
\* <span class="total"> tags that Regex.STARS finds, in page order.
PageShort == << <<"4">>, <<"0">>, <<"0">>, <<"1">> >>
PageA == << <<"1", "0">>, <<"2">>, <<"1">>, <<"0">>, <<"0">> >>
PageB == << <<"3">>, <<"0">>, <<"0">>, <<"0">>, <<"1">> >>
PageBad == << <<"1">>, <<"1", "K">>, <<"0">>, <<"0">>, <<"0">> >>
Pages == { PageShort, PageA, PageB, PageBad }

\* a country whose page has not been served yet
NotServed == [set |-> FALSE, page |-> <<>>]
Served(page) == [set |-> TRUE, page |-> page]

\* the pages a request for the country can be answered with: the store
\* serves a country the same page throughout one invocation
PagesFor(country) ==
    IF store[country].set THEN { store[country].page } ELSE Pages

\* the matches assigned to the stars from 1 upwards
ParseRatingAscending(matches) ==
    IF Len(matches) # StarCount
    THEN [k |-> "none", d |-> ZeroDataset]
    ELSE IF \E i \in 1..StarCount : ~IsInt(matches[i])
    THEN [k |-> "ValueError", d |-> ZeroDataset]
    ELSE [k |-> "dict", d |-> [s \in 1..StarCount |-> IntOf(matches[s])]]

\* None when there are not exactly five matches; otherwise star 5 is the
\* first match, star 1 the last, each through int(), which raises ValueError
\* on a text that is no number.
ParseRating(matches) ==
    IF Len(matches) # StarCount
    THEN [k |-> "none", d |-> ZeroDataset]
    ELSE IF \E i \in 1..StarCount : ~IsInt(matches[i])
    THEN [k |-> "ValueError", d |-> ZeroDataset]
    ELSE [k |-> "dict",
          d |-> [s \in 1..StarCount |-> IntOf(matches[StarCount + 1 - s])]]

----------------------------------------------------------------------------
(* Frames *)

RatIdle ==
    [pc |-> "idle", caller |-> "", app_id |-> <<>>, countries |-> <<>>, i |-> 0,
     sleep |-> NoSleep, store_id |-> 0, dataset |-> ZeroDataset, result |-> <<>>,
     out |-> Pending]

NoRatings == [t |-> "absent", d |-> ZeroDataset, s |-> ""]
NoApp == [found |-> FALSE, id |-> <<>>, user_ratings |-> NoRatings]

DetIdle ==
    [pc |-> "idle", caller |-> "", raw |-> <<>>, app_id |-> <<>>, id_field |-> "",
     country |-> "", add_ratings |-> FALSE, flatten |-> FALSE, sleep |-> NoSleep,
     result |-> "", app |-> NoApp, out |-> Pending]

BatIdle ==
    [pc |-> "idle", app_ids |-> <<>>, i |-> 0, country |-> "", add_ratings |-> FALSE,
     sleep |-> NoSleep, yielded |-> <<>>, res |-> <<>>, out |-> Pending]

TopIdle == [op |-> "none", args |-> <<>>, out |-> Pending, ret |-> <<>>]

\* events of a try / back-off / retry block: time.sleep(n), the back-off
\* time.sleep(2), and a GET that raised (ok = FALSE) or answered
EvSleep(n) == [e |-> "sleep", n |-> n, ok |-> TRUE]
EvBackoff == [e |-> "backoff", n |-> BackoffSecs, ok |-> TRUE]
EvGet(ok) == [e |-> "get", n |-> 0, ok |-> ok]
\* lines 227-228 and 333-334: if sleep is not None: time.sleep(sleep)
SleepEvents(sleep) == IF sleep = NoSleep THEN <<>> ELSE <<EvSleep(sleep)>>

\* no request yet; the block of a method, before its first event
NoReq == [who |-> "", ev |-> <<>>]
NewReq(who) == [who |-> who, ev |-> <<>>]

\* what a log file holds before the invocation: nothing, or an earlier line
OldEntry == <<"test">>
InitLogs == { [c \in Codes |-> <<>>],
              [c \in Codes |-> IF c = "nl" THEN <<OldEntry>> ELSE <<>>] }

Init ==
    /\ top = TopIdle
    /\ net = 0
    /\ log \in InitLogs
    /\ det = DetIdle
    /\ rat = RatIdle
    /\ bat = BatIdle
    /\ req = NoReq
    /\ store = [c \in Codes |-> NotServed]

Idle == top.op = "none"


----------------------------------------------------------------------------
(* get_app_ratings *)

\* the countries argument: None, one string, or a list
CountryArgs ==
    { [t |-> "none", c |-> "", l |-> <<>>] }
    \cup { [t |-> "str", c |-> c, l |-> <<>>] : c \in Codes }
    \cup { [t |-> "list", c |-> "", l |-> l] : l \in SeqsUpTo(Codes, MaxCountries) }

\* lines 320-325
NormCountries(arg) ==
    CASE arg.t = "none" -> COUNTRIES
      [] arg.t = "str" -> <<arg.c>>
      [] arg.t = "list" -> arg.l

\* lines 319-325: the frame on entry
RatEnter(caller, app_id, arg, sleep) ==
    [RatIdle EXCEPT !.pc = "loop", !.caller = caller, !.app_id = app_id,
                    !.countries = NormCountries(arg), !.i = 1, !.sleep = sleep]

\* the frame after the operation has ended with outcome o
RatEnd(o) == [rat EXCEPT !.pc = "done", !.out = o]

\* the invocation's outcome once the ratings frame ends with o
TopAfterRat(o) == IF rat.caller = "top" THEN [top EXCEPT !.out = o] ELSE top

\* line 303: a caller invokes get_app_ratings
CallRatings(app_id, arg, sleep) ==
    /\ Idle
    /\ top' = [TopIdle EXCEPT !.op = "ratings",
                  !.args = [app_id |-> app_id, countries |-> arg, sleep |-> sleep]]
    /\ rat' = RatEnter("top", app_id, arg, sleep)
    /\ UNCHANGED <<net, log, det, bat, req, store>>

\* lines 327-330 and 359: the loop head; the store id of the next country,
\* or the return of the histogram after the last one
RatLoop ==
    /\ rat.pc = "loop"
    /\ IF rat.i > Len(rat.countries)
       THEN /\ rat' = RatEnd(Return)
            /\ top' = TopAfterRat(Return)
            /\ req' = req
       ELSE LET sid == GetStoreIdForCountry(rat.countries[rat.i]) IN
            IF sid.ok
            THEN /\ rat' = [rat EXCEPT !.pc = "try", !.store_id = sid.id]
                 /\ top' = top
                 /\ req' = NewReq("ratings")
            ELSE /\ rat' = RatEnd(sid.exc)
                 /\ top' = TopAfterRat(sid.exc)
                 /\ req' = req
    /\ UNCHANGED <<net, log, det, bat, store>>

\* lines 332-336: the optional sleep and the first GET
RatTry ==
    /\ rat.pc = "try"
    /\ net' = net + 1
    /\ \/ /\ req' = [req EXCEPT !.ev = SleepEvents(rat.sleep) \o <<EvGet(FALSE)>>]
          /\ rat' = [rat EXCEPT !.pc = "backoff"]
          /\ store' = store
       \/ \E page \in PagesFor(rat.countries[rat.i]) :
          /\ req' = [req EXCEPT !.ev = SleepEvents(rat.sleep) \o <<EvGet(TRUE)>>]
          /\ rat' = [rat EXCEPT !.pc = "parse", !.result = page]
          /\ store' = [store EXCEPT ![rat.countries[rat.i]] = Served(page)]
    /\ UNCHANGED <<top, log, det, bat>>

\* line 340: the back-off
RatBackoff ==
    /\ rat.pc = "backoff"
    /\ req' = [req EXCEPT !.ev = Append(@, EvBackoff)]
    /\ rat' = [rat EXCEPT !.pc = "retry"]
    /\ UNCHANGED <<top, net, log, det, bat, store>>

\* lines 341-343: the one retry; a second failure ends the operation
RatRetry ==
    /\ rat.pc = "retry"
    /\ net' = net + 1
    /\ \/ LET exc == AppStoreException(
                  <<"Could not parse app store rating response for ID ">>
                  \o rat.app_id) IN
          /\ req' = [req EXCEPT !.ev = Append(@, EvGet(FALSE))]
          /\ rat' = RatEnd(exc)
          /\ top' = TopAfterRat(exc)
          /\ store' = store
       \/ \E page \in PagesFor(rat.countries[rat.i]) :
          /\ req' = [req EXCEPT !.ev = Append(@, EvGet(TRUE))]
          /\ rat' = [rat EXCEPT !.pc = "parse", !.result = page]
          /\ top' = top
          /\ store' = [store EXCEPT ![rat.countries[rat.i]] = Served(page)]
    /\ UNCHANGED <<log, det, bat>>

\* lines 345-352: parse the page and add its counts
RatParse ==
    /\ rat.pc = "parse"
    /\ LET ratings == ParseRating(rat.result) IN
       CASE ratings.k = "ValueError" ->
              LET exc == Raise("ValueError", <<"invalid literal for int()">>) IN
              /\ rat' = RatEnd(exc)
              /\ top' = TopAfterRat(exc)
         [] ratings.k = "none" ->
              /\ rat' = [rat EXCEPT !.pc = "loop", !.i = @ + 1]
              /\ top' = top
         [] ratings.k = "dict" ->
              /\ rat' = [rat EXCEPT !.pc = "loop", !.i = @ + 1,
                             !.dataset = [s \in 1..StarCount |-> @[s] + ratings.d[s]]]
              /\ top' = top
    /\ UNCHANGED <<net, log, det, bat, req, store>>

RatStep == RatLoop \/ RatTry \/ RatBackoff \/ RatRetry \/ RatParse

----------------------------------------------------------------------------
(* get_app_details *)

\* what a parsed lookup response can be: no "results" key, an empty
\* "results" list, or a list whose first entry is the app
Lookups == { "nokey", "empty", "found" }

\* the identifier kept as the caller wrote it
NormAppIdLiteral(raw) == raw

\* lines 212-216: int(app_id) when it parses, the string itself otherwise;
\* the URL and the messages are built from the result with "%s"
NormAppId(raw) == IF IsInt(raw) THEN StrOfInt(IntOf(raw)) ELSE raw

\* lines 212-216
IdField(raw) == IF IsInt(raw) THEN "id" ELSE "bundleId"

\* lines 212-224: the frame on entry, about to issue the request
DetEnter(caller, raw, country, add_ratings, flatten, sleep) ==
    [DetIdle EXCEPT !.pc = "try", !.caller = caller, !.raw = raw,
                    !.app_id = NormAppId(raw), !.id_field = IdField(raw),
                    !.country = country, !.add_ratings = add_ratings,
                    !.flatten = flatten, !.sleep = sleep]

\* the frame after the operation has ended with outcome o
DetEnd(o) == [det EXCEPT !.pc = "done", !.out = o]

\* the invocation's outcome once the details frame ends with o
TopAfterDet(o) == IF det.caller = "top" THEN [top EXCEPT !.out = o] ELSE top

\* line 188: a caller invokes get_app_details
CallDetails(raw, country, add_ratings, flatten, sleep) ==
    /\ Idle
    /\ top' = [TopIdle EXCEPT !.op = "details",
                  !.args = [app_id |-> raw, country |-> country,
                            add_ratings |-> add_ratings, flatten |-> flatten,
                            sleep |-> sleep]]
    /\ det' = DetEnter("top", raw, country, add_ratings, flatten, sleep)
    /\ req' = NewReq("details")
    /\ UNCHANGED <<net, log, rat, bat, store>>

\* lines 226-230: the optional sleep and the first GET (.json() included)
DetTry ==
    /\ det.pc = "try"
    /\ net' = net + 1
    /\ \/ /\ req' = [req EXCEPT !.ev = SleepEvents(det.sleep) \o <<EvGet(FALSE)>>]
          /\ det' = [det EXCEPT !.pc = "backoff"]
       \/ \E r \in Lookups :
          /\ req' = [req EXCEPT !.ev = SleepEvents(det.sleep) \o <<EvGet(TRUE)>>]
          /\ det' = [det EXCEPT !.pc = "lookup", !.result = r]
    /\ UNCHANGED <<top, log, rat, bat, store>>

\* line 234: the back-off
DetBackoff ==
    /\ det.pc = "backoff"
    /\ req' = [req EXCEPT !.ev = Append(@, EvBackoff)]
    /\ det' = [det EXCEPT !.pc = "retry"]
    /\ UNCHANGED <<top, net, log, rat, bat, store>>

\* the retry block with a failure leading back to the back-off
DetRetryAgain ==
    /\ det.pc = "retry"
    /\ net' = net + 1
    /\ \/ /\ req' = [req EXCEPT !.ev = Append(@, EvGet(FALSE))]
          /\ det' = [det EXCEPT !.pc = "backoff"]
       \/ \E r \in Lookups :
          /\ req' = [req EXCEPT !.ev = Append(@, EvGet(TRUE))]
          /\ det' = [det EXCEPT !.pc = "lookup", !.result = r]
    /\ UNCHANGED <<top, log, rat, bat, store>>

\* lines 235-237: the one retry; a second failure ends the operation
DetRetry ==
    /\ det.pc = "retry"
    /\ net' = net + 1
    /\ \/ LET exc == AppStoreException(
                  <<"Could not parse app store response for ID ">> \o det.app_id) IN
          /\ req' = [req EXCEPT !.ev = Append(@, EvGet(FALSE))]
          /\ det' = DetEnd(exc)
          /\ top' = TopAfterDet(exc)
       \/ \E r \in Lookups :
          /\ req' = [req EXCEPT !.ev = Append(@, EvGet(TRUE))]
          /\ det' = [det EXCEPT !.pc = "lookup", !.result = r]
          /\ top' = top
    /\ UNCHANGED <<log, rat, bat, store>>

\* lines 239-246: result["results"][0], then the call of get_app_ratings
\* with the same country when add_ratings is set
DetLookup ==
    /\ det.pc = "lookup"
    /\ IF det.result # "found"
       THEN LET exc == AppStoreException(<<"No app found with ID ">> \o det.app_id) IN
            /\ det' = DetEnd(exc)
            /\ top' = TopAfterDet(exc)
            /\ rat' = rat
       ELSE /\ det' = [det EXCEPT
                         !.pc = IF det.add_ratings THEN "ratings" ELSE "flatten",
                         !.app = [found |-> TRUE, id |-> det.app_id,
                                  user_ratings |-> NoRatings]]
            /\ top' = top
            /\ rat' = IF det.add_ratings
                      THEN RatEnter("details", det.app_id,
                                    [t |-> "str", c |-> det.country, l |-> <<>>], 1)
                      ELSE rat
    /\ UNCHANGED <<net, log, bat, req, store>>

\* lines 246-251: get_app_ratings has ended.  Its histogram is attached; an
\* AppStoreException is logged and replaced by the sentinel string; any
\* other exception leaves get_app_details.
DetRatings ==
    /\ det.pc = "ratings"
    /\ rat.pc = "done"
    /\ rat' = RatIdle
    /\ CASE rat.out.k = "return" ->
              /\ det' = [det EXCEPT !.pc = "flatten",
                           !.app.user_ratings =
                               [t |-> "dict", d |-> rat.dataset, s |-> ""]]
              /\ log' = log
              /\ top' = top
         [] rat.out.k = "raise" /\ rat.out.type = "AppStoreException" ->
              /\ det' = [det EXCEPT !.pc = "flatten",
                           !.app.user_ratings =
                               [t |-> "str", d |-> ZeroDataset,
                                s |-> "Error; unable to collect ratings"]]
              /\ log' = LogError(log, det.country,
                                 <<"Unable to collect ratings for ">> \o det.app_id)
              /\ top' = top
         [] rat.out.k = "raise" /\ rat.out.type # "AppStoreException" ->
              /\ det' = DetEnd(rat.out)
              /\ log' = log
              /\ top' = TopAfterDet(rat.out)
    /\ UNCHANGED <<net, bat, req, store>>

\* lines 256-261 on the user_ratings field: a dict becomes the joined
\* "<key> star: <value>" string, a string stays
Flatten(app) ==
    IF app.user_ratings.t = "dict"
    THEN [app EXCEPT !.user_ratings.t = "flat"]
    ELSE app

\* lines 256-263: flatten and return the record
DetFlatten ==
    /\ det.pc = "flatten"
    /\ det' = [DetEnd(Return) EXCEPT
                 !.app = IF det.flatten THEN Flatten(det.app) ELSE det.app]
    /\ top' = TopAfterDet(Return)
    /\ UNCHANGED <<net, log, rat, bat, req, store>>

DetStep == DetTry \/ DetBackoff \/ DetRetry \/ DetLookup \/ DetRatings \/ DetFlatten

----------------------------------------------------------------------------
(* get_multiple_app_details: a generator *)

\* line 265: the call only creates the generator; nothing of the body runs
CallBatch(app_ids, country, add_ratings, sleep) ==
    /\ Idle
    /\ top' = [TopIdle EXCEPT !.op = "batch",
                  !.args = [app_ids |-> app_ids, country |-> country,
                            add_ratings |-> add_ratings, sleep |-> sleep]]
    /\ bat' = [BatIdle EXCEPT !.pc = "created", !.app_ids = app_ids, !.i = 1,
                              !.country = country, !.add_ratings = add_ratings,
                              !.sleep = sleep]
    /\ UNCHANGED <<net, log, det, rat, req, store>>

\* the consumer asks for the next item: the body runs on from where it stopped
BatNext ==
    /\ bat.pc \in {"created", "suspended"}
    /\ bat' = [bat EXCEPT !.pc = "loop"]
    /\ UNCHANGED <<top, net, log, det, rat, req, store>>

\* lines 281-283: the loop head; the call of get_app_details for the next
\* id (flatten at its default), or the end of the generator
BatLoop ==
    /\ bat.pc = "loop"
    /\ IF bat.i > Len(bat.app_ids)
       THEN /\ bat' = [bat EXCEPT !.pc = "exhausted", !.out = Return]
            /\ top' = [top EXCEPT !.out = Return]
            /\ det' = det
            /\ req' = req
       ELSE /\ bat' = [bat EXCEPT !.pc = "call"]
            /\ top' = top
            /\ det' = DetEnter("batch", bat.app_ids[bat.i], bat.country,
                               bat.add_ratings, TRUE, bat.sleep)
            /\ req' = NewReq("details")
    /\ UNCHANGED <<net, log, rat, store>>

\* lines 283-286: get_app_details has ended.  Its record is yielded; an
\* AppStoreException is logged and the loop goes on; any other exception
\* leaves the generator.
BatResume ==
    /\ bat.pc = "call"
    /\ det.pc = "done"
    /\ det' = DetIdle
    /\ CASE det.out.k = "return" ->
              /\ bat' = [bat EXCEPT !.pc = "suspended", !.i = @ + 1,
                           !.yielded = Append(@, det.app),
                           !.res = Append(@, "ok")]
              /\ log' = log
              /\ top' = top
         [] det.out.k = "raise" /\ det.out.type = "AppStoreException" ->
              /\ bat' = [bat EXCEPT !.pc = "loop", !.i = @ + 1,
                           !.res = Append(@, "logged")]
              /\ log' = LogError(log, bat.country, det.out.msg)
              /\ top' = top
         [] det.out.k = "raise" /\ det.out.type # "AppStoreException" ->
              /\ bat' = [bat EXCEPT !.pc = "raised", !.out = det.out,
                           !.res = Append(@, "raised")]
              /\ log' = log
              /\ top' = [top EXCEPT !.out = det.out]
    /\ UNCHANGED <<net, rat, req, store>>

BatStep == BatNext \/ BatLoop \/ BatResume

----------------------------------------------------------------------------
(* The methods that issue one request *)

\* an optional int argument (num, page): None or a number
NoneArg == [none |-> TRUE, v |-> 0]
IntArg(n) == [none |-> FALSE, v |-> n]
NumArgs == { NoneArg } \cup { IntArg(n) : n \in 0..MaxNum }

\* the term argument: None, "" or a word
NoTerm == [none |-> TRUE, s |-> <<>>]
Terms == { NoTerm, [none |-> FALSE, s |-> <<>>], [none |-> FALSE, s |-> <<"m">>] }

Langs == { "nl", "en" }

\* the ids a search or chart response lists, in the server's order
ServerIds == << 11, 12, 13 >>
ServerLists == { SubSeq(ServerIds, 1, n) : n \in 0..MaxResults }

\* l[:amount]
Slice(l, amount) ==
    IF amount.none THEN l
    ELSE IF amount.v >= 0
         THEN SubSeq(l, 1, IF amount.v < Len(l) THEN amount.v ELSE Len(l))
         ELSE SubSeq(l, 1, IF Len(l) + amount.v > 0 THEN Len(l) + amount.v ELSE 0)

\* what the search request can do: raise (the built-in ConnectionError, a
\* JSONDecodeError from .json(), or another exception of the transport), or
\* answer without "bubbles", with an empty "bubbles", or with a first group
SearchResponses ==
    { [k |-> k, results |-> <<>>] :
        k \in {"ConnectionError", "JSONDecodeError", "OtherError", "nobubbles", "empty"} }
    \cup { [k |-> "bubbles", results |-> l] : l \in ServerLists }

\* the limit taken from num alone
AmountOfNum(num, page) == num

\* lines 48-51
Amount(num, page) ==
    IF num.none \/ page.none THEN NoneArg ELSE IntArg(num.v * page.v)

\* lines 45-69: [out, ret, net] of get_app_ids_for_query once the term has
\* passed its check, when the request, if it is reached, is answered by resp
QueryRequest(term, num, page, country, lang, resp) ==
    LET sid == GetStoreIdForCountry(country) IN
    IF ~sid.ok
    THEN [out |-> sid.exc, ret |-> <<>>, net |-> 0]
    ELSE CASE resp.k = "ConnectionError" ->
                [out |-> AppStoreException(<<"Cannot connect to store: ">>),
                 ret |-> <<>>, net |-> 1]
           [] resp.k = "JSONDecodeError" ->
                [out |-> AppStoreException(<<"Could not parse app store response">>),
                 ret |-> <<>>, net |-> 1]
           [] resp.k = "OtherError" ->
                [out |-> Raise("OtherError", <<>>), ret |-> <<>>, net |-> 1]
           [] resp.k \in {"nobubbles", "empty"} ->
                [out |-> AppStoreException(
                            <<"No results found for search term ">> \o term.s
                            \o <<" (country ", sid.id, ", lang ", lang, ")">>),
                 ret |-> <<>>, net |-> 1]
           [] resp.k = "bubbles" ->
                [out |-> Return,
                 ret |-> Slice(resp.results, Amount(num, page)), net |-> 1]

\* the method without its check of the term
QueryResultUnchecked(term, num, page, country, lang, resp) ==
    QueryRequest(term, num, page, country, lang, resp)

\* lines 42-69: [out, ret, net] of get_app_ids_for_query
QueryResult(term, num, page, country, lang, resp) ==
    IF term.none \/ term.s = <<>>
    THEN [out |-> AppStoreException(<<"No term was given">>), ret |-> <<>>, net |-> 0]
    ELSE QueryRequest(term, num, page, country, lang, resp)

\* line 28: get_app_ids_for_query
GetAppIdsForQuery(term, num, page, country, lang) ==
    /\ Idle
    /\ \E resp \in SearchResponses :
         LET r == QueryResult(term, num, page, country, lang, resp) IN
         /\ top' = [op |-> "search",
                    args |-> [term |-> term, num |-> num, page |-> page,
                              country |-> country, lang |-> lang,
                              k |-> resp.k, results |-> resp.results],
                    out |-> r.out, ret |-> r.ret]
         /\ net' = net + r.net
    /\ UNCHANGED <<log, det, rat, bat, req, store>>

\* AppStoreCollections.TOP_FREE_IOS (util.py)
TOP_FREE_IOS == "topfreeapplications"
Collections == { "", "newapplications" }

\* what the chart request can do
ChartResponses ==
    { [k |-> k, resultIds |-> <<>>] : k \in {"JSONDecodeError", "OtherError", "nokey"} }
    \cup { [k |-> "ids", resultIds |-> l] : l \in ServerLists }

\* lines 89-102: [out, ret, url] of get_app_ids_for_collection; the country
\* goes into the URL lower-cased and is looked up nowhere
CollectionResult(collection, category, num, country, resp) ==
    LET name == IF collection = "" THEN TOP_FREE_IOS ELSE collection
        url == [cc |-> country, g |-> category, name |-> name, limit |-> num]
    IN  CASE resp.k = "JSONDecodeError" ->
               [out |-> AppStoreException(<<"Could not parse app store response">>),
                ret |-> <<>>, url |-> url]
          [] resp.k = "OtherError" ->
               [out |-> Raise("OtherError", <<>>), ret |-> <<>>, url |-> url]
          [] resp.k = "nokey" ->
               [out |-> Raise("KeyError", <<"resultIds">>), ret |-> <<>>, url |-> url]
          [] resp.k = "ids" ->
               [out |-> Return, ret |-> resp.resultIds, url |-> url]

\* line 71: get_app_ids_for_collection
GetAppIdsForCollection(collection, num, country) ==
    /\ Idle
    /\ \E resp \in ChartResponses :
         LET r == CollectionResult(collection, "", num, country, resp) IN
         /\ top' = [op |-> "collection",
                    args |-> [collection |-> collection, num |-> num,
                              country |-> country, url |-> r.url],
                    out |-> r.out, ret |-> r.ret]
         /\ net' = net + 1
    /\ UNCHANGED <<log, det, rat, bat, req, store>>

\* the entries of a developer lookup: the artist record and software records
DevEntries ==
    { [wrapperType |-> "artist", trackId |-> 0],
      [wrapperType |-> "software", trackId |-> 11],
      [wrapperType |-> "software", trackId |-> 12] }

\* what the developer lookup can do
DevResponses ==
    { [k |-> k, results |-> <<>>] : k \in {"JSONDecodeError", "OtherError", "nokey"} }
    \cup { [k |-> "results", results |-> l] : l \in SeqsUpTo(DevEntries, MaxResults) }

IsSoftware(app) == app.wrapperType = "software"

\* lines 116-127: [out, ret] of get_apps_for_developer
AppsForDeveloper(resp) ==
    CASE resp.k = "JSONDecodeError" ->
           [out |-> AppStoreException(<<"Could not parse app store response">>),
            ret |-> <<>>]
      [] resp.k = "OtherError" -> [out |-> Raise("OtherError", <<>>), ret |-> <<>>]
      [] resp.k = "nokey" -> [out |-> Return, ret |-> <<>>]
      [] resp.k = "results" ->
           [out |-> Return, ret |-> SelectSeq(resp.results, IsSoftware)]

\* line 104: get_apps_for_developer
GetAppsForDeveloper(country) ==
    /\ Idle
    /\ \E resp \in DevResponses :
         LET r == AppsForDeveloper(resp) IN
         /\ top' = [op |-> "developer",
                    args |-> [country |-> country, resp |-> resp],
                    out |-> r.out, ret |-> r.ret]
         /\ net' = net + 1
    /\ UNCHANGED <<log, det, rat, bat, req, store>>

\* lines 141-146: [out, ret] of get_app_ids_for_developer.  apps is the list
\* get_apps_for_developer returned, so apps["results"] indexes a list with a
\* string and raises TypeError whenever the list is not empty.
AppIdsForDeveloper(resp) ==
    LET apps == AppsForDeveloper(resp) IN
    IF apps.out.k = "raise" THEN apps
    ELSE IF Len(apps.ret) > 0
         THEN [out |-> Raise("TypeError", <<"list indices must be integers or slices, not str">>),
               ret |-> <<>>]
         ELSE [out |-> Return, ret |-> <<>>]

\* line 129: get_app_ids_for_developer
GetAppIdsForDeveloper(country) ==
    /\ Idle
    /\ \E resp \in DevResponses :
         LET r == AppIdsForDeveloper(resp) IN
         /\ top' = [op |-> "developer_ids",
                    args |-> [country |-> country, resp |-> resp],
                    out |-> r.out, ret |-> r.ret]
         /\ net' = net + 1
    /\ UNCHANGED <<log, det, rat, bat, req, store>>

\* what the app page request can do: raise, or answer with a page without
\* the marker, with the marker but no bracketed list after it, with a list
\* that is no JSON, or with a list of ids
SimilarResponses ==
    { [k |-> k, ids |-> <<>>] : k \in {"OtherError", "nomarker", "noblob", "badjson"} }
    \cup { [k |-> "ids", ids |-> SubSeq(ServerIds, 1, n)] : n \in 1..MaxResults }

\* lines 165-186: [out, ret, net] of get_similar_app_ids_for_app
SimilarResult(country, resp) ==
    LET sid == GetStoreIdForCountry(country) IN
    IF ~sid.ok THEN [out |-> sid.exc, ret |-> <<>>, net |-> 0]
    ELSE CASE resp.k = "OtherError" ->
                [out |-> Raise("OtherError", <<>>), ret |-> <<>>, net |-> 1]
           [] resp.k \in {"nomarker", "noblob", "badjson"} ->
                [out |-> Return, ret |-> <<>>, net |-> 1]
           [] resp.k = "ids" -> [out |-> Return, ret |-> resp.ids, net |-> 1]

\* line 149: get_similar_app_ids_for_app
GetSimilarAppIdsForApp(country) ==
    /\ Idle
    /\ \E resp \in SimilarResponses :
         LET r == SimilarResult(country, resp) IN
         /\ top' = [op |-> "similar",
                    args |-> [country |-> country, resp |-> resp],
                    out |-> r.out, ret |-> r.ret]
         /\ net' = net + r.net
    /\ UNCHANGED <<log, det, rat, bat, req, store>>

\* line 380: _log_error called on its own
CallLogError(country) ==
    /\ Idle
    /\ top' = [TopIdle EXCEPT !.op = "log_error", !.args = [country |-> country],
                              !.out = Return]
    /\ log' = LogError(log, country, OldEntry)
    /\ UNCHANGED <<net, det, rat, bat, req, store>>

----------------------------------------------------------------------------

\* one invocation of a method that returns when it is done
DirectCall ==
    \/ \E col \in Collections, n \in 0..MaxNum, c \in Codes :
          GetAppIdsForCollection(col, n, c)
    \/ \E t \in Terms, n \in NumArgs, p \in NumArgs, c \in Codes, l \in Langs :
          GetAppIdsForQuery(t, n, p, c, l)
    \/ \E c \in Codes : GetAppsForDeveloper(c)
    \/ \E c \in Codes : GetAppIdsForDeveloper(c)
    \/ \E c \in Codes : GetSimilarAppIdsForApp(c)
    \/ \E a \in AppIds, c \in Codes, r \in BOOLEAN, f \in BOOLEAN, s \in Sleeps :
          CallDetails(a, c, r, f, s)
    \/ \E a \in AppIds, c \in CountryArgs, s \in Sleeps : CallRatings(a, c, s)
    \/ \E c \in Codes : CallLogError(c)

\* the methods called directly
NextDirect == DirectCall \/ DetStep \/ RatStep

\* the generator of get_multiple_app_details and its consumer
NextBatch ==
    \/ \E l \in SeqsUpTo(AppIds, MaxBatch), c \in Codes, r \in BOOLEAN, s \in Sleeps :
          CallBatch(l, c, r, s)
    \/ BatStep
    \/ DetStep
    \/ RatStep

Next == NextDirect \/ NextBatch

\* every method
Spec == Init /\ [][Next]_vars

\* the methods other than the generator
SpecDirect == Init /\ [][NextDirect]_vars

\* the generator alone
SpecBatch == Init /\ [][NextBatch]_vars

----------------------------------------------------------------------------
(* Properties *)

\* the positions of the attempted identifiers whose get_app_details returned
OkPositions ==
    SelectSeq([i \in 1..Len(bat.res) |-> i], LAMBDA i : bat.res[i] = "ok")

\* the lines of a log file that the invocation wrote
NewEntries(country) == SelectSeq(log[country], LAMBDA m : m # OldEntry)

\* id names the app the caller's identifier raw stands for: the same
\* number, or the same bundle id
NamesApp(id, raw) ==
    IF IsInt(raw) THEN IsInt(id) /\ IntOf(id) = IntOf(raw) ELSE id = raw

\* C1: the batch yields exactly the records of the identifiers whose
\* app-details call succeeded, in input order; a failure of app-details on
\* one identifier never aborts the iteration: the generator never raises,
\* and when it is exhausted every identifier has been attempted.
C1_BatchNeverAborts ==
    /\ bat.pc # "raised"
    /\ Len(bat.yielded) = Len(OkPositions)
    /\ \A j \in 1..Len(bat.yielded) :
          /\ bat.yielded[j].found
          /\ NamesApp(bat.yielded[j].id, bat.app_ids[OkPositions[j]])
    /\ bat.pc = "exhausted" => Len(bat.res) = Len(bat.app_ids)

\* C2: once the batch call has been made the batch has run: every
\* identifier has been attempted, nothing was raised, and the channel of the
\* batch's country holds exactly one new entry per identifier omitted from
\* the output (for a single bad identifier: an empty output and one entry).
C2_OneLogEntryPerOmittedId ==
    bat.pc # "idle" =>
        /\ bat.pc # "raised"
        /\ Len(bat.res) = Len(bat.app_ids)
        /\ Len(NewEntries(bat.country)) = Len(bat.app_ids) - Len(bat.yielded)

\* the GETs of the current try / back-off / retry block
Gets == SelectSeq(req.ev, LAMBDA e : e.e = "get")

\* the block's events after the optional sleep
AfterSleep(sleep) == SubSeq(req.ev, Len(SleepEvents(sleep)) + 1, Len(req.ev))

\* the events of a block are: a GET that answers; or a GET that raises,
\* then the back-off, then the second GET
OneRetryShape(ev) ==
    \/ ev \in { <<>>, <<EvGet(TRUE)>>, <<EvGet(FALSE)>>, <<EvGet(FALSE), EvBackoff>> }
    \/ \E ok \in BOOLEAN : ev = <<EvGet(FALSE), EvBackoff, EvGet(ok)>>

\* C3: a request of app-details, and of the ratings operation for each
\* country, is attempted at most twice; the second attempt follows a failed
\* first attempt and the back-off; a successful retry leaves the same frame
\* and result as a first-attempt success; a second failure ends the
\* operation with an AppStoreException naming the app id, with no third
\* attempt.
C3_OneRetry ==
    /\ Len(Gets) <= 2
    /\ (req.who = "details" /\ det.pc # "idle") =>
          /\ OneRetryShape(AfterSleep(det.sleep))
          /\ SubSeq(req.ev, 1, Len(req.ev) - Len(AfterSleep(det.sleep)))
                \in { <<>>, SleepEvents(det.sleep) }
          /\ (top.op = "details" /\ det.pc \in {"try", "backoff", "retry", "lookup"}) =>
                net = Len(Gets)
          /\ det.pc = "try" <=> Len(Gets) = 0
          /\ det.pc = "backoff" <=> Gets = <<EvGet(FALSE)>> /\ req.ev[Len(req.ev)].e = "get"
          /\ det.pc = "retry" <=> Gets = <<EvGet(FALSE)>> /\ req.ev[Len(req.ev)] = EvBackoff
          /\ det.pc = "lookup" =>
                /\ Gets[Len(Gets)].ok
                /\ det = [DetEnter(det.caller, det.raw, det.country, det.add_ratings,
                                   det.flatten, det.sleep)
                            EXCEPT !.pc = "lookup", !.result = det.result]
          /\ Gets = <<EvGet(FALSE), EvGet(FALSE)>> =>
                /\ det.pc = "done"
                /\ det.out.k = "raise" /\ det.out.type = "AppStoreException"
                /\ det.out.msg[1] = "Could not parse app store response for ID "
                /\ NamesApp(Tail(det.out.msg), det.raw)
                /\ top.op = "details" => net = 2 /\ top.out = det.out
    /\ (req.who = "ratings" /\ rat.pc # "idle") =>
          /\ OneRetryShape(AfterSleep(rat.sleep))
          /\ rat.pc = "try" <=> Len(Gets) = 0
          /\ rat.pc = "backoff" <=> Gets = <<EvGet(FALSE)>> /\ req.ev[Len(req.ev)].e = "get"
          /\ rat.pc = "retry" <=> Gets = <<EvGet(FALSE)>> /\ req.ev[Len(req.ev)] = EvBackoff
          /\ rat.pc = "parse" =>
                /\ Gets[Len(Gets)].ok
                /\ rat.result = store[rat.countries[rat.i]].page
          /\ top.op = "ratings" => net <= 2 * (rat.i - 1) + Len(Gets)
          /\ Gets = <<EvGet(FALSE), EvGet(FALSE)>> =>
                /\ rat.pc = "done"
                /\ rat.out = AppStoreException(
                      <<"Could not parse app store rating response for ID ">>
                      \o rat.app_id)

\* a ratings request for the second country has answered on the retry
C3_Witness ==
    /\ rat.pc = "parse" /\ rat.i = 2
    /\ req.ev = <<EvSleep(1), EvGet(FALSE), EvBackoff, EvGet(TRUE)>>

\* the text after a message's fixed prefix
Named(msg) == Tail(msg)

\* app-details has ended on a well-formed response without a first result
NoResultCase == det.pc = "done" /\ det.result \in {"nokey", "empty"}

\* no record, no ratings request: the two lookup attempts at most
NothingAfterNotFound ==
    /\ ~det.app.found
    /\ rat.pc = "idle"
    /\ \A c \in Codes : ~store[c].set
    /\ top.op = "details" => net <= 2 /\ top.out = det.out

\* C4 as claimed: app-details on a response with no "results" key or an
\* empty list fails with AppStoreException "No app found with ID <id>"
\* whose message contains the identifier exactly as the caller passed it; no
\* record is returned and no ratings request is made.
C4_NotFoundHasLiteralId ==
    NoResultCase =>
        /\ det.out.k = "raise" /\ det.out.type = "AppStoreException"
        /\ det.out.msg[1] = "No app found with ID "
        /\ Contains(det.out.msg, det.raw)
        /\ NothingAfterNotFound

\* C4 as amended: the message names the identifier as it was looked up: the
\* identifier itself when int() rejects it (a bundle id), and otherwise the
\* decimal form of the number it parses to, without leading zeros.
C4_NotFoundNamesLookedUpId ==
    NoResultCase =>
        /\ det.out.k = "raise" /\ det.out.type = "AppStoreException"
        /\ det.out.msg[1] = "No app found with ID "
        /\ LET id == Named(det.out.msg) IN
           IF IsInt(det.raw)
           THEN /\ IsInt(id) /\ IntOf(id) = IntOf(det.raw)
                /\ Len(id) = 1 \/ id[1] # "0"
           ELSE id = det.raw
        /\ NothingAfterNotFound

\* "07" was looked up with ratings requested and the response had no result
C4_Witness ==
    /\ top.op = "details" /\ NoResultCase
    /\ det.raw = <<"0", "7">> /\ det.result = "empty" /\ det.add_ratings
    /\ det.out.msg = <<"No app found with ID ", "7">>

\* C5: search with an empty or absent term fails with AppStoreException
\* "No term was given" and no network request has been issued, whatever the
\* count, page, country and language.
C5_NoTermFailsBeforeNetwork ==
    (top.op = "search" /\ (top.args.term.none \/ top.args.term.s = <<>>)) =>
        /\ top.out = AppStoreException(<<"No term was given">>)
        /\ top.ret = <<>>
        /\ net = 0

\* search("") with an unknown country and no count
C5_Witness ==
    /\ top.op = "search"
    /\ ~top.args.term.none /\ top.args.term.s = <<>>
    /\ top.args.country = "xz" /\ top.args.num.none
    /\ top.out.k = "raise"

Known(c) == Upper(c) \in Markets

CountryNotFound(c) == AppStoreException(<<"Country code not found for ", Upper(c)>>)

\* the country codes the invocation was given
GivenCodes ==
    CASE top.op \in {"search", "collection", "developer", "developer_ids",
                     "similar", "details"} -> { top.args.country }
      [] top.op = "ratings" ->
            LET l == NormCountries(top.args.countries) IN { l[i] : i \in 1..Len(l) }
      [] OTHER -> {}

\* C6 as claimed: an endpoint operation invoked with a country code that is
\* not in the storefront table (at any position of the ratings list) fails
\* with the failure naming the upper-cased code, and has issued no network
\* request.
C6_UnknownCountryFailsFast ==
    (\E c \in GivenCodes : ~Known(c)) =>
        /\ net = 0
        /\ top.out.k # "pending" =>
              \E c \in GivenCodes : ~Known(c) /\ top.out = CountryNotFound(c)

\* C6 as amended: search (after its term check), similar-apps and the
\* ratings operation look the store id up before each request.  Search and
\* similar-apps with an unknown code fail naming the upper-cased code with
\* no request issued.  The ratings operation never issues a request for an
\* unknown code: it fails naming the upper-cased code when its loop reaches
\* the first one, after the requests of the countries before it, and never
\* returns a histogram for a list that holds one.  Collection-listing,
\* developer-listing, developer-ids and app-details do not look the code up:
\* they issue their request with the code as given and never raise this
\* failure.
C6_LookupBeforeRequest ==
    /\ (top.op = "search" /\ ~top.args.term.none /\ top.args.term.s # <<>>
           /\ ~Known(top.args.country)) =>
          top.out = CountryNotFound(top.args.country) /\ net = 0
    /\ (top.op = "similar" /\ ~Known(top.args.country)) =>
          top.out = CountryNotFound(top.args.country) /\ net = 0
    /\ rat.pc \in {"try", "backoff", "retry", "parse"} => Known(rat.countries[rat.i])
    /\ \A c \in Codes : store[c].set => Known(c)
    /\ (rat.pc = "done" /\ rat.out = Return) =>
          \A i \in 1..Len(rat.countries) : Known(rat.countries[i])
    /\ (rat.pc = "done" /\ rat.i <= Len(rat.countries)
           /\ ~Known(rat.countries[rat.i])) =>
          /\ rat.out = CountryNotFound(rat.countries[rat.i])
          /\ \A i \in 1..(rat.i - 1) : Known(rat.countries[i])
          /\ top.op = "ratings" => net <= 2 * (rat.i - 1) /\ top.out = rat.out
    /\ top.op \in {"collection", "developer", "developer_ids"} =>
          net = 1 /\ (top.out.k = "raise" => top.out.msg # CountryNotFound(top.args.country).msg)
    /\ (top.op = "details" /\ top.out.k # "pending") =>
          net >= 1 /\ (top.out.k = "raise" => top.out.msg # CountryNotFound(top.args.country).msg)

\* the ratings operation has failed on the unknown second country of its
\* list after the request for the first
C6_Witness ==
    /\ top.op = "ratings" /\ rat.pc = "done"
    /\ rat.countries = <<"nl", "xz">> /\ rat.i = 2
    /\ top.out = CountryNotFound("xz") /\ net >= 1

\* the page holds five totals that are all numbers
FiveNumbers(page) ==
    Len(page) = StarCount /\ \A i \in 1..StarCount : IsInt(page[i])

\* C7: a country whose page does not yield exactly five totals, or holds a
\* total that is no number, contributes zero to every bucket and does not
\* make the ratings operation fail: the loop goes on to the next country
\* with the histogram unchanged.
C7_BadPageContributesZero ==
    [][(rat.pc = "parse" /\ ~FiveNumbers(rat.result)) =>
          /\ rat'.pc = "loop"
          /\ rat'.i = rat.i + 1
          /\ rat'.dataset = rat.dataset]_vars

\* the count of a country for a star: the five totals of its page stand for
\* the stars 5, 4, 3, 2, 1 in page order; any other page counts nothing
CountOf(c, star) ==
    IF Len(store[c].page) = StarCount
    THEN IntOf(store[c].page[StarCount + 1 - star])
    ELSE 0

RECURSIVE SumCounts(_, _)
\* the sum of the countries' counts for a star
SumCounts(l, star) ==
    IF l = <<>> THEN 0 ELSE CountOf(Head(l), star) + SumCounts(Tail(l), star)

\* the permutations of 1..n
Perms(n) == { f \in [1..n -> 1..n] : \A i, j \in 1..n : f[i] = f[j] => i = j }

\* l without its i-th element
Without(l, i) == SubSeq(l, 1, i - 1) \o SubSeq(l, i + 1, Len(l))

\* C8: when the pages of all countries were fetched and the histogram is
\* returned, it has exactly the keys 1..5, each bucket is the sum of the
\* countries' counts for that star, every permutation of the list sums to
\* the same histogram, and a country without data adds nothing.
C8_AdditiveOrderIndependent ==
    (rat.pc = "done" /\ rat.out = Return) =>
        LET l == rat.countries IN
        /\ DOMAIN rat.dataset = 1..StarCount
        /\ \A star \in 1..StarCount :
              /\ rat.dataset[star] = SumCounts(l, star)
              /\ \A f \in Perms(Len(l)) :
                    rat.dataset[star] = SumCounts([i \in 1..Len(l) |-> l[f[i]]], star)
              /\ \A i \in 1..Len(l) :
                    Len(store[l[i]].page) # StarCount =>
                       rat.dataset[star] = SumCounts(Without(l, i), star)

\* two countries with different pages have been summed
C8_Witness ==
    /\ top.op = "ratings" /\ rat.pc = "done" /\ rat.out = Return
    /\ rat.countries = <<"nl", "GB">>
    /\ store["nl"].page = PageA /\ store["GB"].page = PageB
    /\ rat.dataset = <<1, 0, 1, 2, 13>>

\* C9: with ratings requested, once the lookup has found the app any
\* failure of the ratings operation leaves app-details returning the record:
\* its user_ratings is the histogram or, after a failure, the sentinel
\* string, and the failure is the last line of the country's log.
C9_RatingsFailureKeepsRecord ==
    (det.pc = "done" /\ det.app.found /\ det.add_ratings) =>
        /\ det.out = Return
        /\ det.app.user_ratings.t # "absent"
        /\ det.app.user_ratings.t = "str" =>
              /\ det.app.user_ratings.s = "Error; unable to collect ratings"
              /\ Len(log[det.country]) > 0
              /\ log[det.country][Len(log[det.country])]
                    = <<"Unable to collect ratings for ">> \o det.app_id

\* the trackId of each record, in order
TrackIds(apps) == [i \in 1..Len(apps) |-> apps[i].trackId]

\* C10: on a well-formed lookup response developer-ids returns the trackIds
\* of exactly the records developer-listing returns for it (the software
\* entries), in the same order, the empty list for a response without
\* results, and never fails.
C10_DeveloperIdsOfListing ==
    (top.op = "developer_ids" /\ top.args.resp.k \in {"nokey", "results"}) =>
        /\ top.out = Return
        /\ top.ret = TrackIds(AppsForDeveloper(top.args.resp).ret)

\* the smaller of two numbers
Min(a, b) == IF a < b THEN a ELSE b

\* C11: for a non-empty term, a count c and a page p, when the request is
\* answered with a first results group of n entries, search returns the
\* first min(c*p, n) identifiers of that group in the server's order: at
\* most c*p identifiers, a prefix of the server's list.
C11_SearchReturnsPrefix ==
    (/\ top.op = "search"
     /\ ~top.args.term.none /\ top.args.term.s # <<>>
     /\ ~top.args.num.none /\ ~top.args.page.none
     /\ Known(top.args.country)
     /\ top.args.k = "bubbles") =>
        LET c == top.args.num.v
            p == top.args.page.v
            n == Len(top.args.results)
        IN  /\ top.out = Return
            /\ top.ret = SubSeq(top.args.results, 1, Min(c * p, n))
            /\ Len(top.ret) <= c * p
            /\ net = 1

\* a search whose limit c*p cuts the server's list short
C11_Witness ==
    /\ top.op = "search" /\ top.out = Return
    /\ ~top.args.num.none /\ ~top.args.page.none
    /\ top.args.num.v * top.args.page.v < Len(top.args.results)
    /\ Len(top.ret) = top.args.num.v * top.args.page.v
    /\ top.ret # <<>>

====
